---------------------------- MODULE Spec2Model ----------------------------
(***************************************************************************)
(* PySnake (snake.py): the Board widget and its Snake as a state machine.  *)
(* One action per Qt handler of Board: keyPressEvent, timerEvent and       *)
(* paintEvent, plus the start() that Game.__init__ performs.               *)
(***************************************************************************)
EXTENDS Integers, Sequences, FiniteSets, TLC

\* ------------------------------------------------------------------ constants
board_size == 50
start_length == 10

\* ------------------------------------------------------------------ bounds
\* Width of the window of 1..board_size-1 the random source is sampled in.
MaxRand == 2
\* Timer ticks of one game, those of a snake still on its way east along
\* the row it started in apart.
MaxTicks == 6
\* Cells the body grows by in one game.
MaxGrow == 2

VARIABLES
    playing,        \* Board.playing; the timer is active exactly when it holds
    new_direction,  \* Board._new_direction
    enemies,        \* Board._enemies, a list of cells
    food,           \* Board._food
    body,           \* Snake.body, head first (<<>> while Board._snake is None)
    head,           \* Snake.head, a copy of its own, moved before the checks
    direction,      \* Snake.direction
    eating,         \* Snake.eating
    msg,            \* the last message emitted on msg_status_bar
    last,           \* the last of start(), a timer tick ("step" or the check
                    \* that raised), a placement by paintEvent and a quit
    nticks          \* timer ticks of the current game

vars == <<playing, new_direction, enemies, food, body, head, direction,
          eating, msg, last, nticks>>

Cell(x, y) == [x |-> x, y |-> y]

\* SnakeBody with i running upwards, the tail first
SnakeBody_forward == [k \in 1..start_length |-> Cell((k - 1) + 2, 2)]

\* Snake.__init__: body cells (i + 2, 2) for i = start_length-1 down to 0
SnakeBody == [k \in 1..start_length |-> Cell((start_length - k) + 2, 2)]

Keys == {"Up", "Right", "Down", "Left", "Q", "R", "Other"}

\* random.randint(1, board_size - 1) for x, sampled in the MaxRand columns
\* from the one the snake's head starts in
RandX == {v \in 1..(board_size - 1) : start_length < v /\ v <= start_length + MaxRand}

\* random.randint(1, board_size - 1) for y, sampled in the rows up to the
\* one the snake starts in
RandY == {v \in 1..(board_size - 1) : v <= SnakeBody[1].y}

RandCells == {Cell(x, y) : x \in RandX, y \in RandY}

\* every cell randint(1, board_size - 1) can give for x and for y
AllCells == {Cell(x, y) : x \in 1..(board_size - 1), y \in 1..(board_size - 1)}

\* Python truth value of an int
Truthy(n) == n # 0

\* a dict compared with a bool is never equal
DictEqBool(d, b) == FALSE

\* any(self._enemies): some enemy dict is non-empty
AnyEnemies(es) == \E i \in 1..Len(es) : DOMAIN es[i] # {}

\* ------------------------------------------------------------------ Snake
set_head_position(h, d) ==
    IF d = 1 THEN Cell(h.x, h.y - 1)
    ELSE IF d = 2 THEN Cell(h.x + 1, h.y)
    ELSE IF d = 3 THEN Cell(h.x, h.y + 1)
    ELSE IF d = 4 THEN Cell(h.x - 1, h.y)
    ELSE h

\* check_head_touches_border without its test of y against -1
check_head_touches_border_no_top(h) ==
    \/ h.x = -1
    \/ h.x = board_size
    \/ h.y = board_size

check_head_touches_border(h) ==
    \/ h.x = -1
    \/ h.y = -1
    \/ h.x = board_size
    \/ h.y = board_size

\* check_head_touches_tail sparing the last cell, which the move would vacate
check_head_touches_tail_vacated(h, b) == \E i \in 1..(Len(b) - 1) : b[i] = h

check_head_touches_tail(h, b) == \E i \in 1..Len(b) : b[i] = h

\* head_touches_food comparing the columns alone
head_touches_food_column(h, f) == h.x = f.x

head_touches_food(h, f) == h = f

\* check_head_touches_enemy passing over the first enemy
check_head_touches_enemy_rest(h, es) == \E i \in 2..Len(es) : es[i] = h

check_head_touches_enemy(h, es) == \E i \in 1..Len(es) : es[i] = h

\* the checks of Snake.move with the enemies tested before the body
Collision_enemy_first(h, b, es) ==
    IF check_head_touches_border(h) THEN "border"
    ELSE IF check_head_touches_enemy(h, es) THEN "enemy"
    ELSE IF check_head_touches_tail(h, b) THEN "tail"
    ELSE "none"

\* which check of Snake.move raises first, "none" when none does
Collision(h, b, es) ==
    IF check_head_touches_border(h) THEN "border"
    ELSE IF check_head_touches_tail(h, b) THEN "tail"
    ELSE IF check_head_touches_enemy(h, es) THEN "enemy"
    ELSE "none"

\* Snake.grow: a copy of the last cell is appended
grow(b) == Append(b, Cell(b[Len(b)].x, b[Len(b)].y))

\* the shifting loop writing body[0] alone
shift_head_only(b, h) ==
    [i \in 1..Len(b) |-> IF i = 1 THEN Cell(h.x, h.y) ELSE b[i]]

\* the shifting loop of Snake.move: every part takes the part ahead, then
\* body[0] takes the head
shift(b, h) == [i \in 1..Len(b) |-> IF i = 1 THEN Cell(h.x, h.y) ELSE b[i - 1]]

\* a move that grows after the shifting loop: the copy of the last cell stays
move_grow_last(b, h, f) ==
    IF head_touches_food(h, f) THEN grow(shift(b, h)) ELSE shift(b, h)

\* body after a move that raised nothing
move(b, h, f) == IF head_touches_food(h, f) THEN shift(grow(b), h) ELSE shift(b, h)

\* ------------------------------------------------------------------ Board
\* enemy_forbidden_place without its comparison with the food
enemy_forbidden_place_no_food(enemy, nd, h, f, es) ==
    \/ ((nd = 1 \/ Truthy(3)) /\ enemy.y = h.y)
    \/ ((nd = 2 \/ Truthy(4)) /\ enemy.x = h.x)
    \/ DictEqBool(enemy, AnyEnemies(es))

\* enemy_forbidden_place with "or" where the source has "and"
enemy_forbidden_place_or(enemy, nd, h, f, es) ==
    \/ ((nd = 1 \/ Truthy(3)) \/ enemy.y = h.y)
    \/ ((nd = 2 \/ Truthy(4)) \/ enemy.x = h.x)
    \/ enemy = f
    \/ DictEqBool(enemy, AnyEnemies(es))

\* enemy_forbidden_place with "d == 1 or 3" read as d being 1 or 3
enemy_forbidden_place_by_direction(enemy, nd, h, f, es) ==
    \/ ((nd = 1 \/ nd = 3) /\ enemy.y = h.y)
    \/ ((nd = 2 \/ nd = 4) /\ enemy.x = h.x)
    \/ enemy = f
    \/ DictEqBool(enemy, AnyEnemies(es))

\* Board.enemy_forbidden_place: "(d == 1 or 3)" is d == 1 or else the truthy
\* 3, and "enemy == any(...)" compares a dict with a bool
enemy_forbidden_place(enemy, nd, h, f, es) ==
    \/ ((nd = 1 \/ Truthy(3)) /\ enemy.y = h.y)
    \/ ((nd = 2 \/ Truthy(4)) /\ enemy.x = h.x)
    \/ enemy = f
    \/ DictEqBool(enemy, AnyEnemies(es))

\* the cells spread_food can end on: resampled until it differs from the head
spread_food(h) == {c \in RandCells : c # h}

\* the lists move_enemies can end on: every enemy is resampled until its
\* place is not forbidden
move_enemies(es, nd, h, f) ==
    {r \in [1..Len(es) -> RandCells] :
        \A i \in 1..Len(r) : ~enemy_forbidden_place(r[i], nd, h, f, es)}

\* spawn with the parity test turned around
spawn_odd(es, b) == IF Len(b) % 2 = 1 THEN Append(es, Cell(0, 0)) ELSE es

\* paintEvent after a growth: one more enemy when the body length is even
spawn(es, b) == IF Len(b) % 2 = 0 THEN Append(es, Cell(0, 0)) ELSE es

Welcome == [text |-> "welcome", score |-> 0]

GameOver(b) == [text |-> "gameover", score |-> Len(b) - start_length]

\* Board.__init__
Init ==
    /\ playing = FALSE
    /\ new_direction = 2
    /\ enemies = <<>>
    /\ food = Cell(0, 0)
    /\ body = <<>>
    /\ head = Cell(0, 0)
    /\ direction = 2
    /\ eating = FALSE
    /\ msg = [text |-> "", score |-> 0]
    /\ last = "init"
    /\ nticks = 0

\* Board.start with Board.init_board
start ==
    /\ msg' = Welcome
    /\ new_direction' = 2
    /\ body' = SnakeBody
    /\ head' = Cell(SnakeBody[1].x, SnakeBody[1].y)
    /\ direction' = 2
    /\ eating' = FALSE
    /\ food' \in spread_food(head')
    /\ enemies' \in move_enemies(<<Cell(0, 0)>>, 2, head', food')
    /\ playing' = TRUE
    /\ last' = "start"
    /\ nticks' = 0

\* stop as a pause switch: playing is turned around
stop_switch ==
    /\ msg' = GameOver(body)
    /\ playing' = ~playing

\* Board.stop
stop ==
    /\ msg' = GameOver(body)
    /\ playing' = FALSE

\* Game.__init__: start() on the new board, then show()
GameInit ==
    /\ last = "init"
    /\ start

\* turn with its tests made against the pending direction
turn_pending(key, d, nd) ==
    IF key = "Up" /\ nd # 3 THEN 1
    ELSE IF key = "Right" /\ nd # 4 THEN 2
    ELSE IF key = "Down" /\ nd # 1 THEN 3
    ELSE IF key = "Left" /\ nd # 2 THEN 4
    ELSE nd

\* the chain of direction tests of keyPressEvent: the pending direction a
\* direction key leaves, d being the snake's direction and nd the pending one
turn(key, d, nd) ==
    IF key = "Up" /\ d # 3 THEN 1
    ELSE IF key = "Right" /\ d # 4 THEN 2
    ELSE IF key = "Down" /\ d # 1 THEN 3
    ELSE IF key = "Left" /\ d # 2 THEN 4
    ELSE nd

\* keyPressEvent whose R key restarts a running game too
keyPressEvent_restart_always(key) ==
    /\ last # "init"
    /\ IF key \in {"Up", "Right", "Down", "Left"}
       THEN /\ new_direction' = turn(key, direction, new_direction)
            /\ UNCHANGED <<playing, enemies, food, body, head, direction,
                           eating, msg, last, nticks>>
       ELSE IF key = "Q"
       THEN /\ stop
            /\ last' = "quit"
            /\ UNCHANGED <<new_direction, enemies, food, body, head, direction,
                           eating, nticks>>
       ELSE IF key = "R"
       THEN start
       ELSE UNCHANGED vars

keyPressEvent(key) ==
    /\ last # "init"
    /\ IF key \in {"Up", "Right", "Down", "Left"}
       THEN /\ new_direction' = turn(key, direction, new_direction)
            /\ UNCHANGED <<playing, enemies, food, body, head, direction,
                           eating, msg, last, nticks>>
       ELSE IF key = "Q"
       THEN /\ stop
            /\ last' = "quit"
            /\ UNCHANGED <<new_direction, enemies, food, body, head, direction,
                           eating, nticks>>
       ELSE IF key = "R" /\ ~playing
       THEN start
       ELSE UNCHANGED vars

KeyPressEvent == \E key \in Keys : keyPressEvent(key)

\* the snake is still on its way east along the row it started in
Straight ==
    /\ new_direction = 2
    /\ \A i \in 1..Len(body) : body[i].y = SnakeBody[1].y

\* Board.timerEvent for the board's own timer, with Snake.move
TimerEvent ==
    /\ playing
    /\ nticks < MaxTicks \/ Straight
    /\ Len(body) < start_length + MaxGrow
    /\ nticks' = nticks + 1
    /\ direction' = new_direction
    /\ head' = set_head_position(head, new_direction)
    /\ IF Collision(head', body, enemies) # "none"
       THEN /\ stop
            /\ last' = Collision(head', body, enemies)
            /\ UNCHANGED <<body, eating>>
       ELSE /\ body' = move(body, head', food)
            /\ eating' = (eating \/ head_touches_food(head', food))
            /\ last' = "step"
            /\ UNCHANGED <<playing, msg>>
    /\ UNCHANGED <<new_direction, enemies, food>>

\* Board.paintEvent, which Qt delivers for the update() of a timer tick and
\* whenever the shown window has to be redrawn
PaintEvent ==
    /\ last # "init"
    /\ IF eating
       THEN /\ food' \in spread_food(head)
            /\ enemies' \in move_enemies(spawn(enemies, body), new_direction,
                                         head, food')
            /\ eating' = FALSE
            /\ last' = "place"
       ELSE UNCHANGED <<food, enemies, eating, last>>
    /\ UNCHANGED <<playing, new_direction, body, head, direction, msg,
                   nticks>>

Next ==
    \/ GameInit
    \/ KeyPressEvent
    \/ TimerEvent
    \/ PaintEvent

Spec == Init /\ [][Next]_vars

TypeOK ==
    /\ playing \in BOOLEAN
    /\ new_direction \in 1..4
    /\ direction \in 1..4
    /\ eating \in BOOLEAN
    /\ nticks \in Nat
    /\ last \in {"init", "start", "step", "place", "border", "tail", "enemy",
                 "quit"}

\* ------------------------------------------------------------------ properties
\* the head cell the next timer tick proposes
Proposed == set_head_position(head, new_direction)

\* the step is a timer tick
Tick == playing /\ nticks' = nticks + 1

\* the step is a start()
Started == ~playing /\ playing'

\* the step is the placement paintEvent makes after a growth
Placement == eating /\ last' = "place"

\* food and enemies have just been placed, by start() or by paintEvent
Placed == last \in {"start", "place"}

OnBody(c, b) == \E i \in 1..Len(b) : b[i] = c

IsEnemy(c, es) == \E i \in 1..Len(es) : es[i] = c

OffGrid(c) == c.x = -1 \/ c.y = -1 \/ c.x = board_size \/ c.y = board_size

Opposite(d) == IF d = 1 THEN 3 ELSE IF d = 2 THEN 4 ELSE IF d = 3 THEN 1 ELSE 2

\* C1: while the game is running every body cell has both coordinates in
\* 0..board_size-1.
C1_BodyInGrid ==
    playing =>
        \A i \in 1..Len(body) :
            /\ body[i].x \in 0..(board_size - 1)
            /\ body[i].y \in 0..(board_size - 1)

\* the running snake has come to the last column with its head
C1_Witness ==
    /\ playing
    /\ nticks > 0
    /\ body[1].x = board_size - 1

\* C2: a tick whose proposed head is off the grid, on the body as it is before
\* the move, or on an enemy, leaves body, food and enemies as they are and
\* takes the game from running to stopped.
C2_CollisionStops ==
    [][(Tick /\ (OffGrid(Proposed) \/ OnBody(Proposed, body)
                    \/ IsEnemy(Proposed, enemies)))
        => (body' = body /\ food' = food /\ enemies' = enemies /\ ~playing')]_vars

\* the tick from (49,2) east into x = board_size stopped the game
C2_Witness ==
    /\ ~playing
    /\ last = "border"
    /\ head = Cell(board_size, 2)
    /\ body[1] = Cell(board_size - 1, 2)

\* C3: a tick without collision leaves the body length as it is or adds one
\* to it, and it adds one exactly when the proposed head is the food cell; the
\* body has at least start_length cells in every state after start().
C3_Length ==
    /\ [](last # "init" => Len(body) >= start_length)
    /\ [][(Tick /\ playing')
           => Len(body') = Len(body) + (IF Proposed = food THEN 1 ELSE 0)]_vars

\* a tick has just eaten the first food
C3_Witness ==
    /\ playing
    /\ last = "step"
    /\ eating
    /\ Len(body) = start_length + 1
    /\ body[1] = food

C5_NoReverse ==
    /\ [](last # "init" => new_direction # Opposite(direction))
    /\ [][Tick => direction' # Opposite(direction)]_vars

\* two ticks in, the snake has turned south and a west turn is pending
C5_Witness ==
    /\ playing
    /\ nticks >= 2
    /\ direction = 3
    /\ new_direction = 4

\* C6: whatever the state before it, start() leaves a body of start_length
\* cells on the row y = 2 from the head (11,2) to the tail (2,2), direction
\* and pending direction east, one enemy, and the game running.
C6_Start ==
    [][Started =>
        /\ Len(body') = start_length
        /\ body'[1] = Cell(11, 2)
        /\ body'[Len(body')] = Cell(2, 2)
        /\ \A i \in 1..Len(body') : body'[i].y = 2
        /\ \A i \in 1..(Len(body') - 1) : body'[i].x = body'[i + 1].x + 1
        /\ direction' = 2
        /\ new_direction' = 2
        /\ Len(enemies') = 1
        /\ playing']_vars

\* a game has just been started
C6_Witness ==
    /\ last = "start"
    /\ playing
    /\ nticks = 0
    /\ head = Cell(11, 2)

\* C7: once food and enemies have been placed, neither the food cell nor an
\* enemy cell is a cell of the body, and no two enemies share a cell.
C7_AllDistinct ==
    Placed =>
        /\ ~OnBody(food, body)
        /\ \A i \in 1..Len(enemies) : ~OnBody(enemies[i], body)
        /\ \A i, j \in 1..Len(enemies) : i # j => enemies[i] # enemies[j]

\* C8: once food and enemies have been placed, no enemy cell is the food cell.
C8_EnemyOffFood ==
    Placed => \A i \in 1..Len(enemies) : enemies[i] # food

\* two enemies have been placed after a growth
C8_Witness ==
    /\ last = "place"
    /\ Len(enemies) = 2
    /\ \A i \in 1..Len(enemies) : enemies[i] # food

\* C9: once spread_food has placed the food, the food cell is not the first
\* cell of the body.
C9_FoodOffHead ==
    Placed => food # body[1]

\* C10: a tick whose proposed head is the last body cell, or any other cell of
\* the body as it is before the move, is stopped by check_head_touches_tail
\* and commits nothing.
C10_TailCollides ==
    [][(Tick /\ OnBody(Proposed, body))
        => (last' = "tail" /\ ~playing' /\ body' = body)]_vars

\* the head was stopped on the cell the tail still holds
C10_Witness ==
    /\ ~playing
    /\ last = "tail"
    /\ head = body[Len(body)]

\* C11: a tick reports the first check that applies, in the order border,
\* body, enemy: a proposed head that is both a body cell and an enemy cell
\* stops the game by the body check, and the check that stops a tick is a
\* function of the proposed head, the body and the enemies before the tick.
C11_FirstCheck ==
    [][Tick =>
        /\ last' = IF OffGrid(Proposed) THEN "border"
                   ELSE IF OnBody(Proposed, body) THEN "tail"
                   ELSE IF IsEnemy(Proposed, enemies) THEN "enemy"
                   ELSE "step"
        /\ (OnBody(Proposed, body) /\ IsEnemy(Proposed, enemies))
               => last' = "tail"]_vars

\* the head was stopped on a cell that is a body cell and an enemy cell
C11_Witness ==
    /\ ~playing
    /\ last = "tail"
    /\ OnBody(head, body)
    /\ IsEnemy(head, enemies)

\* C12: stop() called on a stopped game, which is what the Q key does then,
\* changes nothing: playing stays False, body, food and enemies are as they
\* were, and the message carries the score of the first call.
C12_StopTwice ==
    [][(~playing /\ msg = GameOver(body) /\ keyPressEvent("Q"))
        => /\ ~playing'
           /\ body' = body
           /\ food' = food
           /\ enemies' = enemies
           /\ msg' = msg]_vars

\* Q was pressed on a game that a collision had stopped
C12_Witness ==
    /\ ~playing
    /\ last = "quit"
    /\ head # body[1]
    /\ msg = GameOver(body)

\* a step that performs start(): the game is freshly started after it and the
\* step has reset the body or the tick count, or placed the food or the enemies
Restarted ==
    /\ last' = "start"
    /\ <<last, body, nticks, food, enemies>>'
           # <<last, body, nticks, food, enemies>>

\* C13: the R key pressed on a running game changes nothing, and start() is
\* performed by a step only when the game is not running.
C13_Restart ==
    [][/\ (playing /\ keyPressEvent("R"))
            => UNCHANGED <<body, direction, new_direction, food, enemies,
                           playing>>
       /\ Restarted => ~playing]_vars

\* a running game that has turned and grown, which a restart would undo
C13_Witness ==
    /\ playing
    /\ last = "step"
    /\ new_direction # 2
    /\ Len(body) > start_length

\* C14: when paintEvent is about to relocate the enemies, a sampled cell is
\* forbidden exactly when it is the food cell, or the pending direction is
\* vertical (1 or 3) and the cell has the head's y, or the pending direction
\* is horizontal (2 or 4) and the cell has the head's x.
C14_ForbiddenExactly ==
    eating =>
        \A f \in spread_food(head) : \A c \in RandCells :
            enemy_forbidden_place(c, new_direction, head, f,
                                  spawn(enemies, body))
                <=> \/ c = f
                    \/ (new_direction \in {1, 3} /\ c.y = head.y)
                    \/ (new_direction \in {2, 4} /\ c.x = head.x)

\* C15: a tick that raises nothing commits the new head followed by the old
\* body without its last cell, or, when the new head is the food cell, the
\* new head followed by the whole old body.
C15_Committed ==
    [][(Tick /\ last' = "step")
        => body' = IF Proposed = food
                   THEN <<Proposed>> \o body
                   ELSE <<Proposed>> \o SubSeq(body, 1, Len(body) - 1)]_vars

\* the first tick grew the snake: the last cell is where the tail was
C15_Witness ==
    /\ last = "step"
    /\ eating
    /\ Len(body) = start_length + 1
    /\ body[Len(body)] = SnakeBody[start_length]
    /\ body[2] = SnakeBody[1]

\* C16: the growth follow-up of paintEvent has run before the next tick: no
\* tick starts with the eating flag still set.
C16_FollowUpBeforeTick ==
    [][Tick => ~eating]_vars

\* C17: a step of a stopped game that does not start it again leaves the
\* body, the food and the enemies as they were.
C17_StoppedFrame ==
    [][(~playing /\ ~playing')
        => (body' = body /\ food' = food /\ enemies' = enemies)]_vars

\* two cells that differ by 1 in exactly one coordinate
Adjacent(c, d) ==
    \/ (c.x = d.x /\ (c.y - d.y = 1 \/ d.y - c.y = 1))
    \/ (c.y = d.y /\ (c.x - d.x = 1 \/ d.x - c.x = 1))

\* C18: once the game has been started the body is a simple connected chain:
\* its cells are pairwise distinct and every two consecutive cells are
\* adjacent, after a growing tick too.
C18_Chain ==
    last # "init" =>
        /\ \A i, j \in 1..Len(body) : i # j => body[i] # body[j]
        /\ \A i \in 1..(Len(body) - 1) : Adjacent(body[i], body[i + 1])

\* the snake has just grown on a turn
C18_Witness ==
    /\ playing
    /\ eating
    /\ last = "step"
    /\ Len(body) = start_length + 1
    /\ body[1].y # body[2].y

CanPlace(h, nd, es) ==
    /\ \E f \in AllCells : f # h
    /\ \A f \in spread_food(h) :
           \E c \in AllCells : ~enemy_forbidden_place(c, nd, h, f, es)

\* C20: wherever spread_food and move_enemies are called, by paintEvent after
\* a growth or by start() on a stopped game, the cells 1..board_size-1 by
\* 1..board_size-1 hold a cell each loop accepts, so neither loop has to
\* sample forever.
C20_CanPlace ==
    /\ eating => CanPlace(head, new_direction, spawn(enemies, body))
    /\ ~playing => CanPlace(SnakeBody[1], 2, <<Cell(0, 0)>>)

\* a second growth is waiting for its placement, which adds an enemy
C20_Witness ==
    /\ eating
    /\ Len(body) = start_length + 2
    /\ Len(spawn(enemies, body)) = 2
    /\ head \in AllCells

=============================================================================
